---- MODULE Spec2Model ----
(***************************************************************************)
(* train/epoch_train_functions.py: train_one_epoch and val_one_epoch, run  *)
(* by every worker of a data-parallel job.  Each worker is a sequential    *)
(* program (pc); the feature gather and the end-of-epoch meter reduction   *)
(* are collectives over the workers of the job.                            *)
(***************************************************************************)
EXTENDS Integers, Sequences, FiniteSets, TLC

\* ------------------------------------------------------------------ bounds
NumWorkers == 2      \* processes that may take part in a job
MaxBatches == 2      \* batches a data loader yields at most
MaxK == 2            \* largest k drawn for recall_topk besides the default
MaxCalls == 2        \* epoch calls made by the caller

Workers == 1..NumWorkers

\* -------------------------------------------------------------- rationals
\* Metric values are exact rationals <<num, den>>, den > 0, in lowest terms.
RECURSIVE GCD(_, _)
GCD(a, b) == IF b = 0 THEN a ELSE GCD(b, a % b)

Abs(x) == IF x < 0 THEN -x ELSE x

Rat(n, d) ==
    LET g == GCD(Abs(n), d)
    IN  IF n = 0 THEN <<0, 1>> ELSE <<n \div g, d \div g>>

Zero == <<0, 1>>
One == <<1, 1>>
RatAdd(x, y) == Rat(x[1] * y[2] + y[1] * x[2], x[2] * y[2])
RatMulInt(x, n) == Rat(x[1] * n, x[2])
RatDivInt(x, n) == Rat(x[1], x[2] * n)
RatLeq(x, y) == x[1] * y[2] <= y[1] * x[2]

RECURSIVE RatSum(_)
RatSum(s) == IF s = <<>> THEN Zero ELSE RatAdd(Head(s), RatSum(Tail(s)))

RECURSIVE SetToSeq(_)
SetToSeq(S) ==
    IF S = {} THEN <<>>
    ELSE LET x == CHOOSE y \in S : TRUE IN <<x>> \o SetToSeq(S \ {x})

RECURSIVE IntSum(_)
IntSum(s) == IF s = <<>> THEN 0 ELSE Head(s) + IntSum(Tail(s))

Min(a, b) == IF a <= b THEN a ELSE b

\* ------------------------------------------------------ utils.gen_utils
\* AverageMeter: val, sum, count, avg; update(val, n) adds val*n to sum and n
\* to count and recomputes avg = sum / count.
AverageMeter == [val |-> Zero, sum |-> Zero, count |-> 0, avg |-> Zero]

MeterUpdate(m, v, n) ==
    LET s == RatAdd(m.sum, RatMulInt(v, n))
        c == m.count + n
    IN  [val |-> v, sum |-> s, count |-> c, avg |-> RatDivInt(s, c)]

\* loss_meters[key].update(v, n)
UpdateMeter(meters, key, v, n) ==
    [k \in DOMAIN meters |->
        IF k = key THEN MeterUpdate(meters[k], v, n) ELSE meters[k]]

\* ----------------------------------------------------------- metric keys
\* A key is <<name, k>>: k = 0 for the fixed names, f'Recall @ {k}' is
\* <<"Recall @", k>>.
Key(name) == <<name, 0>>
RecallKey(k) == <<"Recall @", k>>

\* lines 29-37: the meters train_one_epoch creates
TrainMeterKeys ==
    {Key("base_loss"), Key("base_acc"),
     Key("combiner_text_feat_dist"), Key("combiner_image_feat_dist")}

\* variant: val_one_epoch also creating the two feature-distance meters
ValMeterKeysWithDists(recall_topk) ==
    TrainMeterKeys \cup {RecallKey(recall_topk[i]) : i \in DOMAIN recall_topk}

\* lines 115-121: the meters val_one_epoch creates
ValMeterKeys(recall_topk) ==
    {Key("base_loss"), Key("base_acc")}
        \cup {RecallKey(recall_topk[i]) : i \in DOMAIN recall_topk}

\* ---------------------------------------------------------- the arguments
\* line 105: recall_topk=(1, 5, 10)
DefaultTopk == <<1, 5, 10>>
\* other values of recall_topk: ascending, descending, a repeated k
TopkChoices ==
    {DefaultTopk, [i \in 1..MaxK |-> i], [i \in 1..MaxK |-> MaxK + 1 - i], <<1, 1>>}

ArgSet ==
    [base_contrastive : {1, 2},
     finetune_mode : {"None", "image_plus_text"},
     clip_grad_norm : BOOLEAN]

\* the sizes of the local batches a loader yields, the values a similarity takes,
\* the values of the scalars the forward pass yields (loss, feature distances)
BatchSizes == {1, 2}
LogitVals == {0, 1}
ForwardOutputs ==
    {[loss |-> 1, text_dist |-> 2, img_dist |-> 1],
     [loss |-> 2, text_dist |-> 1, img_dist |-> 2]}
OneOutput == {[loss |-> 1, text_dist |-> 1, img_dist |-> 1]}

NoArgs == [base_contrastive |-> 1, finetune_mode |-> "None", clip_grad_norm |-> FALSE]

VARIABLES
    env,              \* the job: workers taking part, args, value domains, call budget
    ncalls,           \* epoch calls made so far
    pc,               \* each worker's position
    fn,               \* the function a worker is in: "none", "train", "val"
    args,             \* args of the current call
    recall_topk,      \* recall_topk of the current call (val)
    loader,           \* the worker's data loader: the local batch sizes it yields
    batch_idx,        \* batches taken from the loader in this call
    clip_training,    \* clip_model.training
    combiner_training,\* combiner.training
    params,           \* version of the model parameters
    grads,            \* "stale", "zero", "fresh", "clipped"
    optimizer,        \* optimizer steps applied
    scaler,           \* scaler.update() calls applied
    loss_meters,      \* key -> AverageMeter (local of the call)
    gsize,            \* rows of the gathered features in this iteration
    fwd_params,       \* parameter version the forward pass of this iteration read
    arrived,          \* gathers entered in this call
    hung,             \* the worker hangs in its gather
    result,           \* the mapping returned by the last call
    returns,          \* calls returned from
    events,           \* history: the events of the current iteration, in order
    cnt,              \* history: events of the current call, counted
    hist,             \* history: key -> <<value, batch size>> of each update
    loss_from,        \* history: parameter version behind each recorded loss
    taken,            \* history: loader positions consumed in this call, in order
    last_recall,      \* history: <<width, k -> Recall@k>> of the last batch
    pre               \* history: the training state when the call was made

jobVars == <<env, ncalls, fn, args, recall_topk, loader, pre>>
modeVars == <<clip_training, combiner_training>>
trainVars == <<params, grads, optimizer, scaler>>
loopVars == <<batch_idx, taken>>
meterVars == <<loss_meters, hist, last_recall, loss_from>>
stepVars == <<events, cnt>>
outVars == <<result, returns>>

vars ==
    <<jobVars, modeVars, trainVars, loopVars, meterVars, stepVars, outVars,
      pc, gsize, fwd_params, arrived, hung>>

NoCnt == [forward |-> 0, zero_grad |-> 0, backward |-> 0, clip |-> 0, step |-> 0, update |-> 0]
Empty == <<>>

Snapshot(w) ==
    [clip_training |-> clip_training[w], combiner_training |-> combiner_training[w],
     params |-> params[w], grads |-> grads[w], optimizer |-> optimizer[w],
     scaler |-> scaler[w], returns |-> returns[w]]

\* The state after construction: nn.Module starts in training mode, nothing has
\* been called.
InitWith(e) ==
    /\ env = e
    /\ ncalls = 0
    /\ pc = [w \in Workers |-> "idle"]
    /\ fn = [w \in Workers |-> "none"]
    /\ args = [w \in Workers |-> NoArgs]
    /\ recall_topk = [w \in Workers |-> Empty]
    /\ loader = [w \in Workers |-> Empty]
    /\ batch_idx = [w \in Workers |-> 0]
    /\ clip_training = [w \in Workers |-> TRUE]
    /\ combiner_training = [w \in Workers |-> TRUE]
    /\ params = [w \in Workers |-> 0]
    /\ grads = [w \in Workers |-> "stale"]
    /\ optimizer = [w \in Workers |-> 0]
    /\ scaler = [w \in Workers |-> 0]
    /\ loss_meters = [w \in Workers |-> Empty]
    /\ gsize = [w \in Workers |-> 0]
    /\ fwd_params = [w \in Workers |-> 0]
    /\ arrived = [w \in Workers |-> 0]
    /\ hung = [w \in Workers |-> FALSE]
    /\ result = [w \in Workers |-> Empty]
    /\ returns = [w \in Workers |-> 0]
    /\ events = [w \in Workers |-> Empty]
    /\ cnt = [w \in Workers |-> NoCnt]
    /\ hist = [w \in Workers |-> Empty]
    /\ loss_from = [w \in Workers |-> Empty]
    /\ taken = [w \in Workers |-> Empty]
    /\ last_recall = [w \in Workers |-> Empty]
    /\ pre = [w \in Workers |-> [clip_training |-> TRUE, combiner_training |-> TRUE,
                                 params |-> 0, grads |-> "stale", optimizer |-> 0,
                                 scaler |-> 0, returns |-> 0]]

\* The loaders a call may be given: up to MaxBatches batches of sizes in env.sizes.
Loaders == UNION {[1..n -> env.sizes] : n \in 0..MaxBatches}

HistAdd(h, key, entry) ==
    IF key \in DOMAIN h THEN [h EXCEPT ![key] = Append(@, entry)]
    ELSE h @@ (key :> <<entry>>)

Set(f, w, v) == [f EXCEPT ![w] = v]
InWorld(f, g(_)) == [w \in Workers |-> IF w \in env.world THEN g(w) ELSE f[w]]

\* The caller enters an epoch function on every worker of the job: a new frame
\* (no locals yet), and the histories of the call start empty.
EnterCall(f, a, topk, ld, first) ==
    /\ \A w \in env.world : pc[w] = "idle"
    /\ ncalls < env.calls
    /\ ncalls' = ncalls + 1
    /\ pc' = InWorld(pc, LAMBDA w : first)
    /\ fn' = InWorld(fn, LAMBDA w : f)
    /\ args' = InWorld(args, LAMBDA w : a)
    /\ recall_topk' = InWorld(recall_topk, LAMBDA w : topk)
    /\ loader' = InWorld(loader, LAMBDA w : ld[w])
    /\ pre' = InWorld(pre, Snapshot)
    /\ batch_idx' = [w \in Workers |-> 0]
    /\ loss_meters' = [w \in Workers |-> Empty]
    /\ gsize' = [w \in Workers |-> 0]
    /\ arrived' = [w \in Workers |-> 0]
    /\ result' = [w \in Workers |-> Empty]
    /\ events' = [w \in Workers |-> Empty]
    /\ cnt' = [w \in Workers |-> NoCnt]
    /\ hist' = [w \in Workers |-> Empty]
    /\ loss_from' = [w \in Workers |-> Empty]
    /\ taken' = [w \in Workers |-> Empty]
    /\ last_recall' = [w \in Workers |-> Empty]
    /\ UNCHANGED <<env, modeVars, trainVars, fwd_params, hung, returns>>

\* ------------------------------------------------------- tensor helpers
\* The similarity matrices a gathered batch of G rows can give: G x G.
Logits(G) ==
    IF env.sims = "any" THEN [1..G -> [1..G -> LogitVals]]
    ELSE {[i \in 1..G |-> [j \in 1..G |-> IF i = j THEN 1 ELSE 0]]}

\* row.argmax(): the index of the first maximal value.
ArgMax(row) ==
    CHOOSE j \in DOMAIN row :
        /\ \A i \in DOMAIN row : row[i] <= row[j]
        /\ \A i \in DOMAIN row : i < j => row[i] < row[j]

\* lines 68, 149: targets = torch.arange(0, logits.size(0))
Targets(L) == [i \in DOMAIN L |-> i]

\* lines 72, 153: (logits.argmax(dim=-1) == targets).float().mean()
Accuracy(L) ==
    Rat(Cardinality({i \in DOMAIN L : ArgMax(L[i]) = Targets(L)[i]}), Len(L))

\* variant: update(value) without the batch size
UnitWeight(w, L) == 1

\* lines 73-74: n=ref_feats.size(0), the rows of the gathered reference features
TrainLossWeight(w, L) == gsize[w]

\* lines 85-86: the weight logits.size(0)
TrainDistWeight(w, L) == Len(L)

\* -------------------------------------------------------- train_one_epoch
\* line 13: the caller enters train_one_epoch on every worker of the job.
CallTrain ==
    \E ld \in [env.world -> Loaders] :
        EnterCall("train", env.args, Empty, ld, "t_assert")

\* variant: the assertion never fails
AssertStripped(w) == TRUE

\* line 16: assert args.base_contrastive == 1
AssertOk(w) == args[w].base_contrastive = 1

\* line 16: the assertion passes, or AssertionError leaves the function
TrainAssert(w) ==
    /\ pc[w] = "t_assert"
    /\ pc' = Set(pc, w, IF AssertOk(w) THEN "t_backbone" ELSE "failed")
    /\ UNCHANGED <<jobVars, modeVars, trainVars, loopVars, meterVars, stepVars,
                   outVars, gsize, fwd_params, arrived, hung>>

\* variant: the backbone put in train mode whatever finetune_mode is
BackboneAlwaysTrain(w) == TRUE

\* lines 18-22: clip_model.eval() if finetune_mode == None else clip_model.train()
TrainBackboneTraining(w) == args[w].finetune_mode # "None"

TrainBackboneMode(w) ==
    /\ pc[w] = "t_backbone"
    /\ clip_training' = Set(clip_training, w, TrainBackboneTraining(w))
    /\ pc' = Set(pc, w, "t_combiner")
    /\ UNCHANGED <<jobVars, combiner_training, trainVars, loopVars, meterVars,
                   stepVars, outVars, gsize, fwd_params, arrived, hung>>

\* lines 24-25: combiner.train()
TrainCombinerMode(w) ==
    /\ pc[w] = "t_combiner"
    /\ combiner_training' = Set(combiner_training, w, TRUE)
    /\ pc' = Set(pc, w, "t_meters")
    /\ UNCHANGED <<jobVars, clip_training, trainVars, loopVars, meterVars,
                   stepVars, outVars, gsize, fwd_params, arrived, hung>>

\* lines 29-37: loss_meters = {...: AverageMeter()}
TrainNewMeters(w) ==
    /\ pc[w] = "t_meters"
    /\ loss_meters' = Set(loss_meters, w, [k \in TrainMeterKeys |-> AverageMeter])
    /\ pc' = Set(pc, w, "t_next")
    /\ UNCHANGED <<jobVars, modeVars, trainVars, loopVars, hist, last_recall,
                   loss_from, stepVars, outVars, gsize, fwd_params, arrived, hung>>

\* variant: a loop that skips every other batch
SkipIndex(w) == batch_idx[w] + 2

\* lines 40, 123: enumerate(tqdm(loader)) yields the next position of the loader
NextIndex(w) == batch_idx[w] + 1

\* line 40: take the next batch, or leave the loop when the loader is exhausted
TrainNextBatch(w) ==
    /\ pc[w] = "t_next"
    /\ IF batch_idx[w] < Len(loader[w])
       THEN /\ batch_idx' = Set(batch_idx, w, NextIndex(w))
            /\ taken' = Set(taken, w, Append(taken[w], NextIndex(w)))
            /\ events' = Set(events, w, Empty)
            /\ pc' = Set(pc, w, "t_forward")
       ELSE /\ pc' = Set(pc, w, "t_collect")
            /\ UNCHANGED <<loopVars, events>>
    /\ UNCHANGED <<jobVars, modeVars, trainVars, meterVars, cnt, outVars, gsize,
                   fwd_params, arrived, hung>>

\* variant: the loss computed from the local features, without the gather
TrainSkipsGather == "t_loss"

\* line 64: the features go through the gather before the loss is computed
TrainAfterForward == "t_wait"

\* lines 42-64: encode, combine, normalise (reading the current parameters), then
\* enter all_gather_batch_with_grad
TrainForward(w) ==
    /\ pc[w] = "t_forward"
    /\ fwd_params' = Set(fwd_params, w, params[w])
    /\ arrived' = Set(arrived, w, arrived[w] + 1)
    /\ events' = Set(events, w, events[w] \o <<"forward", "gather">>)
    /\ cnt' = Set(cnt, w, [cnt[w] EXCEPT !.forward = @ + 1])
    /\ pc' = Set(pc, w, TrainAfterForward)
    /\ UNCHANGED <<jobVars, modeVars, trainVars, loopVars, meterVars, outVars,
                   gsize, hung>>

\* lines 67-86: logits, loss and accuracy; the four meters are updated
TrainMeters(w) ==
    /\ pc[w] = "t_loss"
    /\ \E L \in Logits(gsize[w]), out \in env.outputs :
        LET total_loss == out.loss
            text_dist == out.text_dist
            img_dist == out.img_dist
            n == TrainLossWeight(w, L)
            d == TrainDistWeight(w, L)
            G == gsize[w]
            ma == UpdateMeter(loss_meters[w], Key("base_loss"), <<total_loss, 1>>, n)
            mb == UpdateMeter(ma, Key("base_acc"), Accuracy(L), n)
            mc == UpdateMeter(mb, Key("combiner_text_feat_dist"), <<text_dist, 1>>, d)
            m1 == UpdateMeter(mc, Key("combiner_image_feat_dist"), <<img_dist, 1>>, d)
            h1 == HistAdd(hist[w], Key("base_loss"), <<(<<total_loss, 1>>), G>>)
            h2 == HistAdd(h1, Key("base_acc"), <<Accuracy(L), G>>)
            h3 == HistAdd(h2, Key("combiner_text_feat_dist"), <<(<<text_dist, 1>>), G>>)
            h4 == HistAdd(h3, Key("combiner_image_feat_dist"), <<(<<img_dist, 1>>), G>>)
        IN  /\ loss_meters' = Set(loss_meters, w, m1)
            /\ hist' = Set(hist, w, h4)
    /\ loss_from' = Set(loss_from, w, Append(loss_from[w], fwd_params[w]))
    /\ events' = Set(events, w, Append(events[w], "meters"))
    /\ pc' = Set(pc, w, "t_zero")
    /\ UNCHANGED <<jobVars, modeVars, trainVars, loopVars, last_recall, cnt, outVars,
                   gsize, fwd_params, arrived, hung>>

\* line 89: optimizer.zero_grad()
ZeroGrad(w) ==
    /\ pc[w] = "t_zero"
    /\ grads' = Set(grads, w, "zero")
    /\ events' = Set(events, w, Append(events[w], "zero_grad"))
    /\ cnt' = Set(cnt, w, [cnt[w] EXCEPT !.zero_grad = @ + 1])
    /\ pc' = Set(pc, w, "t_backward")
    /\ UNCHANGED <<jobVars, modeVars, params, optimizer, scaler, loopVars, meterVars,
                   outVars, gsize, fwd_params, arrived, hung>>

\* variant: clipping without the test of clip_grad_norm
AlwaysClip(w) == "t_clip"

\* line 92: if args.clip_grad_norm
AfterBackward(w) == IF args[w].clip_grad_norm THEN "t_clip" ELSE "t_step"

\* line 90: args.scaler.scale(total_loss).backward()
Backward(w) ==
    /\ pc[w] = "t_backward"
    /\ grads' = Set(grads, w, "fresh")
    /\ events' = Set(events, w, Append(events[w], "backward"))
    /\ cnt' = Set(cnt, w, [cnt[w] EXCEPT !.backward = @ + 1])
    /\ pc' = Set(pc, w, AfterBackward(w))
    /\ UNCHANGED <<jobVars, modeVars, params, optimizer, scaler, loopVars, meterVars,
                   outVars, gsize, fwd_params, arrived, hung>>

\* line 93: torch.nn.utils.clip_grad_norm_(clip_trainable_params, 1.0)
ClipGrad(w) ==
    /\ pc[w] = "t_clip"
    /\ grads' = Set(grads, w, "clipped")
    /\ events' = Set(events, w, Append(events[w], "clip"))
    /\ cnt' = Set(cnt, w, [cnt[w] EXCEPT !.clip = @ + 1])
    /\ pc' = Set(pc, w, "t_step")
    /\ UNCHANGED <<jobVars, modeVars, params, optimizer, scaler, loopVars, meterVars,
                   outVars, gsize, fwd_params, arrived, hung>>

\* lines 95-96: args.scaler.step(optimizer), one optimizer step on the parameters;
\* args.scaler.update(); back to the loop head
ScalerStep(w) ==
    /\ pc[w] = "t_step"
    /\ optimizer' = Set(optimizer, w, optimizer[w] + 1)
    /\ params' = Set(params, w, params[w] + 1)
    /\ scaler' = Set(scaler, w, scaler[w] + 1)
    /\ events' = Set(events, w, events[w] \o <<"step", "update">>)
    /\ cnt' = Set(cnt, w, [cnt[w] EXCEPT !.step = @ + 1, !.update = @ + 1])
    /\ pc' = Set(pc, w, "t_next")
    /\ UNCHANGED <<jobVars, modeVars, grads, loopVars, meterVars, outVars, gsize,
                   fwd_params, arrived, hung>>

\* line 99: gather_meter_vals(meter) for every meter: the reduction is entered
TrainCollect(w) ==
    /\ pc[w] = "t_collect"
    /\ pc' = Set(pc, w, "reduce")
    /\ UNCHANGED <<jobVars, modeVars, trainVars, loopVars, meterVars, stepVars,
                   outVars, gsize, fwd_params, arrived, hung>>

\* ----------------------------------------------------- utils.metric_utils
\* get_recall(indices, targets): the fraction of rows whose target is among the
\* row's indices.
get_recall(indices, targets) ==
    Rat(Cardinality({i \in DOMAIN indices :
                        \E j \in DOMAIN indices[i] : indices[i][j] = targets[i]}),
        Len(targets))

\* -------------------------------------------------------------- ranking
Perms(n) == {p \in [1..n -> 1..n] : \A i, j \in 1..n : i # j => p[i] # p[j]}

\* line 159: logits.sort(dim=-1, descending=True): every row's indices in an
\* order of non-increasing value; the order of equal values is not fixed.
SortIdxs(L) ==
    {S \in [DOMAIN L -> Perms(Len(L))] :
        \A i \in DOMAIN L : \A j \in 1..(Len(L) - 1) : L[i][S[i][j]] >= L[i][S[i][j + 1]]}

\* variant: sort_idxs[:, k - 1 : k], the k-th column alone
KthColumn(S, k) == [i \in DOMAIN S |-> SubSeq(S[i], Min(k, Len(S[i]) + 1), Min(k, Len(S[i])))]

\* variant: sort_idxs[:, :k - 1], one column short
TopKShort(S, k) == [i \in DOMAIN S |-> SubSeq(S[i], 1, Min(k - 1, Len(S[i])))]

\* line 163: sort_idxs[:, :k], the first k columns (all of them when k exceeds
\* the width)
TopK(S, k) == [i \in DOMAIN S |-> SubSeq(S[i], 1, Min(k, Len(S[i])))]

\* line 164: the weight ref_feats.size(0)
ValRecallWeight(w, L) == gsize[w]

\* lines 161-164: for k in recall_topk, from position i on
RECURSIVE RecallLoop(_, _, _, _, _, _)
RecallLoop(m, topk, i, S, targets, n) ==
    IF i > Len(topk) THEN m
    ELSE RecallLoop(
            UpdateMeter(m, RecallKey(topk[i]),
                        get_recall(TopK(S, topk[i]), targets), n),
            topk, i + 1, S, targets, n)

RECURSIVE RecallHist(_, _, _, _, _, _)
RecallHist(h, topk, i, S, targets, n) ==
    IF i > Len(topk) THEN h
    ELSE RecallHist(
            HistAdd(h, RecallKey(topk[i]),
                    <<get_recall(TopK(S, topk[i]), targets), n>>),
            topk, i + 1, S, targets, n)

\* ---------------------------------------------------------- val_one_epoch
\* line 105: the caller enters val_one_epoch on every worker of the job.
CallVal ==
    \E topk \in env.topks, ld \in [env.world -> Loaders] :
        EnterCall("val", env.args, topk, ld, "v_modes")

\* lines 111-112: clip_model.eval(); combiner.eval()
ValSetModes(w) ==
    /\ pc[w] = "v_modes"
    /\ clip_training' = Set(clip_training, w, FALSE)
    /\ combiner_training' = Set(combiner_training, w, FALSE)
    /\ pc' = Set(pc, w, "v_meters")
    /\ UNCHANGED <<jobVars, trainVars, loopVars, meterVars, stepVars, outVars,
                   gsize, fwd_params, arrived, hung>>

\* lines 115-121: loss_meters = {...: AverageMeter()}
ValNewMeters(w) ==
    /\ pc[w] = "v_meters"
    /\ loss_meters' = Set(loss_meters, w,
                          [k \in ValMeterKeys(recall_topk[w]) |-> AverageMeter])
    /\ pc' = Set(pc, w, "v_next")
    /\ UNCHANGED <<jobVars, modeVars, trainVars, loopVars, hist, last_recall,
                   loss_from, stepVars, outVars, gsize, fwd_params, arrived, hung>>

\* line 123: take the next batch, or leave the loop when the loader is exhausted
ValNextBatch(w) ==
    /\ pc[w] = "v_next"
    /\ IF batch_idx[w] < Len(loader[w])
       THEN /\ batch_idx' = Set(batch_idx, w, NextIndex(w))
            /\ taken' = Set(taken, w, Append(taken[w], NextIndex(w)))
            /\ events' = Set(events, w, Empty)
            /\ pc' = Set(pc, w, "v_forward")
       ELSE /\ pc' = Set(pc, w, "v_collect")
            /\ UNCHANGED <<loopVars, events>>
    /\ UNCHANGED <<jobVars, modeVars, trainVars, meterVars, cnt, outVars, gsize,
                   fwd_params, arrived, hung>>

\* line 145: the features go through the gather before the loss is computed
ValAfterForward == "v_wait"

\* lines 125-145: encode, combine, normalise, then enter
\* all_gather_batch_with_grad
ValForward(w) ==
    /\ pc[w] = "v_forward"
    /\ fwd_params' = Set(fwd_params, w, params[w])
    /\ arrived' = Set(arrived, w, arrived[w] + 1)
    /\ events' = Set(events, w, events[w] \o <<"forward", "gather">>)
    /\ cnt' = Set(cnt, w, [cnt[w] EXCEPT !.forward = @ + 1])
    /\ pc' = Set(pc, w, ValAfterForward)
    /\ UNCHANGED <<jobVars, modeVars, trainVars, loopVars, meterVars, outVars,
                   gsize, hung>>

\* variant: the validation loop running on into the optimizer step
ValFallsIntoStep == "t_zero"

\* line 123: after the recall meters the loop takes the next batch
ValAfterMetrics == "v_next"

\* lines 148-164: logits, loss and accuracy; every row ranked; Recall@k for every
\* k of recall_topk; the meters are updated
ValMetrics(w) ==
    /\ pc[w] = "v_loss"
    /\ \E L \in Logits(gsize[w]), out \in env.outputs :
        \E S \in SortIdxs(L) :
            LET total_loss == out.loss
                n == gsize[w]
                topk == recall_topk[w]
                ma == UpdateMeter(loss_meters[w], Key("base_loss"), <<total_loss, 1>>, n)
                m1 == UpdateMeter(ma, Key("base_acc"), Accuracy(L), n)
                h1 == HistAdd(hist[w], Key("base_loss"), <<(<<total_loss, 1>>), n>>)
                h2 == HistAdd(h1, Key("base_acc"), <<Accuracy(L), n>>)
            IN  /\ loss_meters' = Set(loss_meters, w,
                        RecallLoop(m1, topk, 1, S, Targets(L), ValRecallWeight(w, L)))
                /\ hist' = Set(hist, w, RecallHist(h2, topk, 1, S, Targets(L), n))
                /\ last_recall' = Set(last_recall, w,
                        <<Len(L[1]),
                          [k \in {topk[i] : i \in DOMAIN topk} |->
                              get_recall(TopK(S, k), Targets(L))]>>)
    /\ loss_from' = Set(loss_from, w, Append(loss_from[w], fwd_params[w]))
    /\ events' = Set(events, w, events[w] \o <<"meters", "recall_meters">>)
    /\ pc' = Set(pc, w, ValAfterMetrics)
    /\ UNCHANGED <<jobVars, modeVars, trainVars, loopVars, cnt, outVars, gsize,
                   fwd_params, arrived, hung>>

\* line 167: gather_meter_vals(meter) for every meter: the reduction is entered
ValCollect(w) ==
    /\ pc[w] = "v_collect"
    /\ pc' = Set(pc, w, "reduce")
    /\ UNCHANGED <<jobVars, modeVars, trainVars, loopVars, meterVars, stepVars,
                   outVars, gsize, fwd_params, arrived, hung>>

\* ------------------------------------------------------ utils.dist_utils
Waiting(w) == pc[w] \in {"t_wait", "v_wait"}

\* the rows of the gathered features: the local batches of all workers together
GatheredRows ==
    LET ws == SetToSeq(env.world)
    IN  IntSum([i \in DOMAIN ws |-> loader[ws[i]][batch_idx[ws[i]]]])

\* all_gather_batch_with_grad: the collective completes for all workers of the
\* job together, once every one of them has entered it; each then holds the
\* concatenation of all local batches.
GatherRelease ==
    /\ \A w \in env.world : Waiting(w) /\ ~hung[w]
    /\ gsize' = InWorld(gsize, LAMBDA w : GatheredRows)
    /\ pc' = InWorld(pc, LAMBDA w : IF pc[w] = "t_wait" THEN "t_loss" ELSE "v_loss")
    /\ UNCHANGED <<jobVars, modeVars, trainVars, loopVars, meterVars, stepVars,
                   outVars, fwd_params, arrived, hung>>

\* No cancellation or timeout: a worker of a distributed job may hang in its
\* gather for good.
Hang(w) ==
    /\ Cardinality(env.world) > 1
    /\ Waiting(w)
    /\ ~hung[w]
    /\ hung' = Set(hung, w, TRUE)
    /\ UNCHANGED <<jobVars, modeVars, trainVars, loopVars, meterVars, stepVars,
                   outVars, pc, gsize, fwd_params, arrived>>

\* gather_meter_vals(meter): the meter's value reduced over the workers of the job
\* (their mean).
gather_meter_vals(key) ==
    LET ws == SetToSeq(env.world)
    IN  RatDivInt(RatSum([i \in DOMAIN ws |-> loss_meters[ws[i]][key].avg]), Len(ws))

\* The reduction completes for all workers together; each returns its mapping.
ReduceRelease ==
    /\ \A w \in env.world : pc[w] = "reduce"
    /\ result' = InWorld(result,
                    LAMBDA w : [k \in DOMAIN loss_meters[w] |-> gather_meter_vals(k)])
    /\ returns' = InWorld(returns, LAMBDA w : returns[w] + 1)
    /\ pc' = InWorld(pc, LAMBDA w : "idle")
    /\ UNCHANGED <<jobVars, modeVars, trainVars, loopVars, meterVars, stepVars,
                   gsize, fwd_params, arrived, hung>>

\* ------------------------------------------------------- specifications
Step(w) ==
    \/ TrainAssert(w) \/ TrainBackboneMode(w) \/ TrainCombinerMode(w)
    \/ TrainNewMeters(w) \/ TrainNextBatch(w) \/ TrainForward(w)
    \/ TrainMeters(w) \/ ZeroGrad(w) \/ Backward(w) \/ ClipGrad(w)
    \/ ScalerStep(w) \/ TrainCollect(w)
    \/ ValSetModes(w) \/ ValNewMeters(w) \/ ValNextBatch(w) \/ ValForward(w)
    \/ ValMetrics(w) \/ ValCollect(w)

Next ==
    \/ CallTrain
    \/ CallVal
    \/ \E w \in Workers : Step(w)
    \/ GatherRelease
    \/ ReduceRelease

\* One process (world size 1), the epoch functions called in turn.
EnvLocal(a) ==
    [world |-> {1}, args |-> a, sizes |-> BatchSizes, sims |-> "identity",
     outputs |-> ForwardOutputs, topks |-> {DefaultTopk}, calls |-> MaxCalls]

Init == \E a \in ArgSet : InitWith(EnvLocal(a))

Spec == Init /\ [][Next]_vars

\* One process, one call: the metric values in full.
EnvMetrics(a) ==
    [world |-> {1}, args |-> a, sizes |-> BatchSizes, sims |-> "any",
     outputs |-> ForwardOutputs, topks |-> TopkChoices, calls |-> 1]

MetricsArgs == [base_contrastive |-> 1, finetune_mode |-> "None", clip_grad_norm |-> TRUE]

InitMetrics == InitWith(EnvMetrics(MetricsArgs))

SpecMetrics == InitMetrics /\ [][Next]_vars

\* A distributed job: all workers, one call.
EnvDist(a) ==
    [world |-> Workers, args |-> a, sizes |-> {1}, sims |-> "identity",
     outputs |-> OneOutput, topks |-> {DefaultTopk}, calls |-> 1]

InitDist == InitWith(EnvDist(MetricsArgs))

NextDist == Next \/ \E w \in Workers : Hang(w)

\* The statements of the epoch functions a worker executes by itself: all but the
\* waits in a collective, and the caller's side ("idle", "failed").
Positions ==
    {"t_assert", "t_backbone", "t_combiner", "t_meters", "t_next", "t_forward",
     "t_loss", "t_zero", "t_backward", "t_clip", "t_step", "t_collect",
     "v_modes", "v_meters", "v_next", "v_forward", "v_loss", "v_collect"}

\* Worker w leaves the statement it is at, for any other position. Every Step(w)
\* is such a step, Next allows no other step that moves w alone, and a worker
\* at a statement can always execute it: a fair Runs(w) is a fair Step(w).
Runs(w) ==
    /\ pc[w] \in Positions
    /\ \E p \in (Positions \cup {"failed", "t_wait", "v_wait", "reduce"}) \ {pc[w]} :
            pc' = Set(pc, w, p)

\* The reduction completes, seen through the positions alone (ReduceRelease is
\* the one step of Next that does this).
ReduceCompletes ==
    /\ \A w \in env.world : pc[w] = "reduce"
    /\ pc' = InWorld(pc, LAMBDA w : "idle")

\* Scheduling: each worker is a process of its own that keeps running, and a
\* collective every live worker has entered completes. Nothing makes the caller
\* call, and nothing keeps a worker from hanging.
Fairness ==
    /\ \A w \in Workers : WF_pc(Runs(w))
    /\ WF_vars(GatherRelease)
    /\ WF_pc(ReduceCompletes)

SpecDist == InitDist /\ [][NextDist]_vars /\ Fairness

\* ================================================================ claims
InTrain(w) == fn[w] = "train" /\ w \in env.world
InVal(w) == fn[w] = "val" /\ w \in env.world
Returned(w) == pc[w] = "idle" /\ returns[w] > pre[w].returns

\* ---------------------------------------------------------------- C1
\* C1 as stated: train_one_epoch returns exactly base_loss, base_acc,
\* combiner_text_feat_dist, combiner_image_feat_dist; val_one_epoch returns those
\* four keys plus 'Recall @ k' for each k of recall_topk.
C1_KeysAsStated ==
    \A w \in env.world :
        Returned(w) =>
            LET four == {Key("base_loss"), Key("base_acc"),
                         Key("combiner_text_feat_dist"), Key("combiner_image_feat_dist")}
                recalls == {RecallKey(recall_topk[w][i]) : i \in DOMAIN recall_topk[w]}
            IN  /\ fn[w] = "train" => DOMAIN result[w] = four
                /\ fn[w] = "val" => DOMAIN result[w] = four \cup recalls

\* C1 amended: train_one_epoch returns exactly the four keys (no Recall key);
\* val_one_epoch returns exactly base_loss, base_acc and one 'Recall @ k' per
\* distinct k of recall_topk, and neither feature-distance key, for any number
\* of batches.
C1_ReturnedKeys ==
    \A w \in env.world :
        Returned(w) =>
            LET four == {Key("base_loss"), Key("base_acc"),
                         Key("combiner_text_feat_dist"), Key("combiner_image_feat_dist")}
                two == {Key("base_loss"), Key("base_acc")}
                recalls == {RecallKey(recall_topk[w][i]) : i \in DOMAIN recall_topk[w]}
            IN  /\ fn[w] = "train" => DOMAIN result[w] = four
                /\ fn[w] = "val" => DOMAIN result[w] = two \cup recalls

C1_Witness ==
    \E w \in env.world :
        /\ Returned(w) /\ fn[w] = "val"
        /\ batch_idx[w] = 2
        /\ recall_topk[w] = <<1, 1>>
        /\ Cardinality(DOMAIN result[w]) = 3

\* ---------------------------------------------------------------- C2
\* C2: a train_one_epoch call with args.base_contrastive # 1 gets no further
\* than the assertion: no mode flag, parameter, optimizer or scaler state has
\* changed since the call, no batch is taken, no meter exists or is updated, and
\* nothing is returned.
C2_AssertHalts ==
    \A w \in env.world :
        (fn[w] = "train" /\ args[w].base_contrastive # 1) =>
            /\ pc[w] \in {"t_assert", "failed"}
            /\ clip_training[w] = pre[w].clip_training
            /\ combiner_training[w] = pre[w].combiner_training
            /\ batch_idx[w] = 0 /\ taken[w] = <<>>
            /\ loss_meters[w] = <<>> /\ hist[w] = <<>>
            /\ cnt[w] = NoCnt
            /\ params[w] = pre[w].params /\ optimizer[w] = pre[w].optimizer
            /\ scaler[w] = pre[w].scaler /\ grads[w] = pre[w].grads
            /\ result[w] = <<>> /\ returns[w] = pre[w].returns

C2_Witness ==
    \E w \in env.world :
        /\ pc[w] = "failed"
        /\ ~clip_training[w] /\ ~combiner_training[w]
        /\ Len(loader[w]) = 2

\* ---------------------------------------------------------------- C3
\* C3: during and after a val_one_epoch call the parameters, the gradients, the
\* optimizer state and the scaler state are those of the moment of the call, and
\* no zero_grad, backward, clipping, scaler.step or scaler.update has happened.
C3_ValReadOnly ==
    \A w \in env.world :
        fn[w] = "val" =>
            /\ params[w] = pre[w].params /\ optimizer[w] = pre[w].optimizer
            /\ scaler[w] = pre[w].scaler /\ grads[w] = pre[w].grads
            /\ cnt[w].zero_grad = 0 /\ cnt[w].backward = 0 /\ cnt[w].clip = 0
            /\ cnt[w].step = 0 /\ cnt[w].update = 0

C3_Witness ==
    \E w \in env.world :
        /\ Returned(w) /\ fn[w] = "val"
        /\ batch_idx[w] = 2
        /\ params[w] = 2
        /\ DOMAIN hist[w] # {}

\* ---------------------------------------------------------------- C4
AfterGather(w) == pc[w] \in {"t_loss", "t_zero", "t_backward", "t_clip", "t_step", "v_loss"}

\* C4: a worker is past the gather of step i, or has recorded the loss or made
\* the optimizer step of step i, only when every worker has entered the gather
\* of step i; while a worker hangs in the gather of step i no worker has
\* completed step i; and a worker returns only when every worker has entered as
\* many gathers as it has.
C4_GatherBarrier ==
    \A w \in env.world : \A v \in env.world :
        /\ AfterGather(w) => arrived[v] >= batch_idx[w]
        /\ Len(loss_from[w]) <= arrived[v]
        /\ cnt[w].step <= arrived[v]
        /\ hung[v] => /\ Len(loss_from[w]) < arrived[v]
                      /\ cnt[w].step < arrived[v]
                      /\ ~Returned(w)
        /\ Returned(w) => arrived[v] = arrived[w]

C4_Witness ==
    \E w \in env.world : \E v \in env.world :
        /\ w # v
        /\ pc[w] = "t_step" /\ batch_idx[w] = 2
        /\ pc[v] = "t_loss" /\ batch_idx[v] = 2

\* ---------------------------------------------------------------- C5
SumN(h) == IntSum([i \in DOMAIN h |-> h[i][2]])
SumVN(h) == RatSum([i \in DOMAIN h |-> RatMulInt(h[i][1], h[i][2])])
Updates(w, key) == IF key \in DOMAIN hist[w] THEN hist[w][key] ELSE <<>>

\* C5: every meter of the current call holds count = sum of the batch sizes and
\* sum = sum of value * batch size over the updates of this call, and reports
\* avg = sum / count; a meter not yet updated in this call is empty, whatever
\* earlier calls did; with one worker the returned value is that mean.
C5_WeightedMean ==
    \A w \in env.world : \A key \in DOMAIN loss_meters[w] :
        LET m == loss_meters[w][key]
            h == Updates(w, key)
        IN  /\ m.count = SumN(h)
            /\ m.sum = SumVN(h)
            /\ h = <<>> => m.avg = Zero
            /\ h # <<>> => m.avg = RatDivInt(SumVN(h), SumN(h))
            /\ (Returned(w) /\ Cardinality(env.world) = 1) =>
                   result[w][key] = (IF h = <<>> THEN Zero
                                     ELSE RatDivInt(SumVN(h), SumN(h)))

C5_Witness ==
    \E w \in env.world :
        LET h == Updates(w, Key("base_loss"))
        IN  /\ ncalls = 2
            /\ pre[w].returns = 1
            /\ Returned(w)
            /\ Len(h) = 2
            /\ h[1][1] # h[2][1]
            /\ h[1][2] # h[2][2]
            /\ result[w][Key("base_loss")] = <<4, 3>>

\* ---------------------------------------------------------------- C6
\* C6: for the ranking of one batch Recall@K1 <= Recall@K2 whenever K1 <= K2, and
\* so for the running means and for the values val_one_epoch returns.
C6_RecallMonotone ==
    \A w \in env.world :
        InVal(w) =>
            \A i, j \in DOMAIN recall_topk[w] :
                LET k1 == recall_topk[w][i]
                    k2 == recall_topk[w][j]
                IN  k1 <= k2 =>
                      /\ last_recall[w] # <<>> =>
                            RatLeq(last_recall[w][2][k1], last_recall[w][2][k2])
                      /\ RecallKey(k1) \in DOMAIN loss_meters[w] =>
                            RatLeq(loss_meters[w][RecallKey(k1)].avg,
                                   loss_meters[w][RecallKey(k2)].avg)
                      /\ Returned(w) =>
                            RatLeq(result[w][RecallKey(k1)], result[w][RecallKey(k2)])

C6_Witness ==
    \E w \in env.world :
        /\ InVal(w) /\ Returned(w)
        /\ recall_topk[w] = <<2, 1>>
        /\ batch_idx[w] = 2
        /\ last_recall[w][2][1] = <<1, 2>>
        /\ result[w][RecallKey(1)] # result[w][RecallKey(2)]

\* ---------------------------------------------------------------- C7
\* C7: for a batch whose similarity matrix has B columns, Recall@K = 1 for every
\* K of recall_topk with K >= B.
C7_RecallFullWidth ==
    \A w \in env.world :
        (InVal(w) /\ last_recall[w] # <<>>) =>
            \A k \in DOMAIN last_recall[w][2] :
                k >= last_recall[w][1] => last_recall[w][2][k] = One

C7_Witness ==
    \E w \in env.world :
        /\ InVal(w) /\ last_recall[w] # <<>>
        /\ last_recall[w][1] = 2
        /\ recall_topk[w] = DefaultTopk
        /\ last_recall[w][2][1] = Zero
        /\ last_recall[w][2][5] = One

\* ---------------------------------------------------------------- C8
TrainBody ==
    {"t_meters", "t_next", "t_forward", "t_wait", "t_loss", "t_zero", "t_backward",
     "t_clip", "t_step", "t_collect"}
ValBody == {"v_meters", "v_next", "v_forward", "v_wait", "v_loss", "v_collect"}
Leaving(w, f) == fn[w] = f /\ (pc[w] = "reduce" \/ Returned(w))

\* C8: from the moment the modes are set until train_one_epoch returns, the
\* combiner is in train mode and the backbone is in eval mode exactly when
\* finetune_mode is None; from the moment the modes are set until val_one_epoch
\* returns, backbone and combiner are in eval mode.
C8_ModesFixed ==
    \A w \in env.world :
        /\ (pc[w] \in TrainBody \/ Leaving(w, "train")) =>
              /\ combiner_training[w]
              /\ ~clip_training[w] <=> (args[w].finetune_mode = "None")
        /\ (pc[w] \in ValBody \/ Leaving(w, "val")) =>
              /\ ~combiner_training[w]
              /\ ~clip_training[w]

C8_Witness ==
    \E w \in env.world :
        /\ pc[w] = "t_step" /\ batch_idx[w] = 2
        /\ args[w].finetune_mode # "None"
        /\ ~pre[w].clip_training /\ ~pre[w].combiner_training
        /\ clip_training[w] /\ combiner_training[w]

\* ---------------------------------------------------------------- C9
IterationEvents(w) ==
    <<"forward", "gather", "meters", "zero_grad", "backward">>
        \o (IF args[w].clip_grad_norm THEN <<"clip">> ELSE <<>>)
        \o <<"step", "update">>

\* C9: in train_one_epoch a finished iteration consists of forward, gather, meter
\* updates, zero_grad, backward, clipping (exactly when clip_grad_norm is set),
\* scaler.step, scaler.update, in that order; after n finished iterations there
\* have been n of each (clipping: n or 0) and n optimizer steps on the
\* parameters; the loss recorded in iteration i was computed from the parameters
\* after i - 1 steps.
C9_StepOrder ==
    \A w \in env.world :
        fn[w] = "train" =>
            LET n == batch_idx[w]
                atHead == pc[w] \in {"t_next", "t_collect", "reduce", "idle"}
            IN  /\ (atHead /\ n > 0) => events[w] = IterationEvents(w)
                /\ atHead =>
                      /\ cnt[w].forward = n /\ cnt[w].zero_grad = n
                      /\ cnt[w].backward = n /\ cnt[w].step = n /\ cnt[w].update = n
                      /\ cnt[w].clip = (IF args[w].clip_grad_norm THEN n ELSE 0)
                      /\ Len(loss_from[w]) = n
                /\ (pc[w] \in {"reduce", "idle"}) => n = Len(loader[w])
                /\ optimizer[w] = pre[w].optimizer + cnt[w].step
                /\ params[w] = pre[w].params + cnt[w].step
                /\ cnt[w].step \in {n - 1, n} \/ n = 0
                /\ \A i \in DOMAIN loss_from[w] : loss_from[w][i] = pre[w].params + i - 1

C9_Witness ==
    \E w \in env.world :
        /\ fn[w] = "train" /\ Returned(w)
        /\ batch_idx[w] = 2
        /\ args[w].clip_grad_norm
        /\ pre[w].params = 2
        /\ loss_from[w] = <<2, 3>>

\* ---------------------------------------------------------------- C10
EqualLoaders == \A w, v \in env.world : Len(loader[w]) = Len(loader[v])
AllReturned == \A w \in env.world : Returned(w)
SomeHung == \E w \in env.world : hung[w]
Shortest(w) == \A v \in env.world : Len(loader[w]) <= Len(loader[v])

\* the workers with more batches than the shortest loader wait in the gather
\* after it, and nobody has returned
Blocked ==
    \A w \in env.world :
        /\ ~Returned(w)
        /\ \A v \in env.world :
            (Shortest(v) /\ Len(loader[w]) > Len(loader[v])) =>
                /\ Waiting(w)
                /\ arrived[w] = Len(loader[v]) + 1

\* batches are taken in loader order, each once, and one gather is entered per
\* batch; a worker returns at most once, after all its batches
InOrder ==
    \A w \in env.world :
        /\ taken[w] = [i \in 1..batch_idx[w] |-> i]
        /\ arrived[w] \in {batch_idx[w] - 1, batch_idx[w]} \/ batch_idx[w] = 0
        /\ returns[w] <= 1
        /\ Returned(w) =>
              /\ batch_idx[w] = Len(loader[w])
              /\ arrived[w] = Len(loader[w])
              /\ EqualLoaders

\* C10: batches are consumed in loader order, each once, with one gather each;
\* when all loaders have the same length and no worker hangs, every worker
\* returns, once; when the lengths differ and no worker hangs, the workers with
\* more batches end up waiting for good in the gather the finished workers never
\* enter, and nobody returns.
C10_EpochTerminates ==
    /\ []InOrder
    /\ (ncalls = 1 /\ EqualLoaders) ~> (AllReturned \/ SomeHung)
    /\ (ncalls = 1 /\ ~EqualLoaders) ~> ([]Blocked \/ SomeHung)

C10_Witness ==
    /\ AllReturned
    /\ \A w \in env.world : Len(loader[w]) = 2 /\ arrived[w] = 2 /\ returns[w] = 1

====
